---- MODULE Spec2Model ----
(***************************************************************************)
(* Model of the buffered text logger of text_logger_lib/text_logger.c.     *)
(*                                                                         *)
(* A byte is a one-character string; a C string or a memory region is a    *)
(* sequence of bytes.  The file is append-only: fileBase is the length it  *)
(* had before the context existed and fileBytes are the bytes the context  *)
(* appended.  pTextBuffer holds the in-bounds bytes of the scratch buffer  *)
(* below currBytePos; bytes at offsets >= maxBufferByteSize do not exist   *)
(* and reading them (fwrite) is undefined behaviour.                       *)
(***************************************************************************)
EXTENDS Integers, Sequences, FiniteSets, TLC

(***************************************************************************)
(* Bounds of the model.                                                    *)
(***************************************************************************)
MaxCapacity == 60
MaxBudget == 80
MaxInitLen == 40
MinCapacity == 16
MinBudget == 66
MaxFaults == 1
MaxDriverLogged == 60

(***************************************************************************)
(* Program constants.                                                      *)
(***************************************************************************)
MAX_STR_SIZE == 128
LOG_EXTRA_STR_LENGTH == 6

LOG_LEVEL_ERROR == 1
LOG_LEVEL_WARN == 2
LOG_LEVEL_INFO == 3
LOG_LEVEL_DEBUG == 4
LOG_LEVEL_VERBOSE == 5

TEXTLOGGER_SUCCESS == "SUCCESS"
TEXTLOGGER_ERR_FILE_ERROR == "FILE_ERROR"
TEXTLOGGER_ERR_INVALID_INPUT == "INVALID_INPUT"
TEXTLOGGER_ERR_INSUFFICIENT_FILE_SPACE == "INSUFFICIENT_FILE_SPACE"

NUL == "NUL"

\* the range of int
INT_MAX == 2147483647
INT_MIN == -INT_MAX - 1

(***************************************************************************)
(* Inputs.                                                                 *)
(***************************************************************************)
LogFile == <<".", "/", "L">>
EndMarker == <<"E", "N", "D">>
\* the argument lists TextLogger_Create is called with
CreateArgs ==
  { [path |-> LogFile, errMsg |-> EndMarker, level |-> LOG_LEVEL_INFO,
     cap |-> MaxCapacity, budget |-> MaxBudget],
    [path |-> LogFile, errMsg |-> EndMarker, level |-> LOG_LEVEL_ERROR,
     cap |-> MinCapacity, budget |-> MinBudget],
    [path |-> <<>>, errMsg |-> EndMarker, level |-> LOG_LEVEL_ERROR,
     cap |-> MaxCapacity, budget |-> MinBudget],
    [path |-> LogFile, errMsg |-> EndMarker, level |-> LOG_LEVEL_VERBOSE,
     cap |-> MaxCapacity, budget |-> Len(EndMarker) + 1],
    [path |-> LogFile, errMsg |-> <<"X">>, level |-> LOG_LEVEL_VERBOSE,
     cap |-> -1, budget |-> MaxBudget] }
InitLens == {0, MaxInitLen}
LogTexts == {<<"a">>}
Clocks ==
  { [tm_year |-> 124, tm_mon |-> 0, tm_mday |-> 5, tm_hour |-> 7, tm_min |-> 8, tm_sec |-> 9] }

\* Outcomes of the file primitives during one flush: fopen succeeds or not,
\* fwrite writes all or only part of the bytes, and the bytes fwrite reads
\* beyond the end of the scratch buffer are garbage ("?": some byte that is
\* not the record's), or the read faults and the process dies.
NoFault == [openOk |-> TRUE, written |-> "all", oob |-> "?"]
FileEnvs ==
  { NoFault,
    [openOk |-> FALSE, written |-> "all", oob |-> "?"],
    [openOk |-> TRUE, written |-> "part", oob |-> "?"],
    [openOk |-> TRUE, written |-> "all", oob |-> "crash"] }
OpenEnvs == {e \in FileEnvs : e.written = "all" /\ e.oob = "?"}
\* the outcomes that matter to a call: those of a flush it does not reach
\* are left out
EnvsIf(flushes) == IF flushes THEN FileEnvs ELSE {NoFault}
\* outcomes of the four malloc calls of TextLogger_Create: the one that
\* returns NULL, 0 when none does
MallocFailures == 0..4

Min(a, b) == IF a < b THEN a ELSE b
Max(a, b) == IF a < b THEN b ELSE a

(***************************************************************************)
(* printf conversions.                                                     *)
(***************************************************************************)
DigitChar(d) == <<"0", "1", "2", "3", "4", "5", "6", "7", "8", "9">>[d + 1]

RECURSIVE Decimal(_)
Decimal(n) == IF n < 10 THEN <<DigitChar(n)>>
              ELSE Decimal(n \div 10) \o <<DigitChar(n % 10)>>

\* %0<width>d of a non-negative integer: zero-padded to at least width digits
RECURSIVE ZeroPad(_, _)
ZeroPad(s, width) == IF Len(s) >= width THEN s ELSE ZeroPad(<<"0">> \o s, width)

FormatD(n, width) == ZeroPad(Decimal(n), width)

\* what snprintf(dst, size, "%s", str) stores at dst: nothing when size is 0,
\* the whole string when it fits with its terminator, else the first size-1
\* bytes and the terminator.  Its return value is Len(str) in every case.
\* (The logger never calls it with currBytePos beyond maxBufferByteSize: a
\* write follows either a flush that emptied the buffer or a check that
\* found room.)
SnprintfStored(size, str) ==
  IF size <= 0 THEN <<>>
  ELSE IF Len(str) < size THEN str
  ELSE SubSeq(str, 1, size - 1) \o <<NUL>>

\* pTimeBuffer after the snprintf of TextLogger_LogTimeStamp
TimeStampString_Unpadded(tm) ==
  LET full == <<"[">> \o Decimal(tm.tm_year + 1900) \o <<"-">>
              \o Decimal(tm.tm_mon + 1) \o <<"-">> \o Decimal(tm.tm_mday)
              \o <<" ", "|", " ">>
              \o Decimal(tm.tm_hour) \o <<":">> \o Decimal(tm.tm_min)
              \o <<":">> \o Decimal(tm.tm_sec) \o <<"]", " ">>
  IN  SubSeq(full, 1, Min(Len(full), MAX_STR_SIZE - 1))

TimeStampString(tm) ==
  LET full == <<"[">> \o FormatD(tm.tm_year + 1900, 4) \o <<"-">>
              \o FormatD(tm.tm_mon + 1, 2) \o <<"-">> \o FormatD(tm.tm_mday, 2)
              \o <<" ", "|", " ">>
              \o FormatD(tm.tm_hour, 2) \o <<":">> \o FormatD(tm.tm_min, 2)
              \o <<":">> \o FormatD(tm.tm_sec, 2) \o <<"]", " ">>
  IN  SubSeq(full, 1, Min(Len(full), MAX_STR_SIZE - 1))

LogMsgTag(level) ==
  CASE level = LOG_LEVEL_ERROR -> <<"[", "E", "]", ":", " ">>
    [] level = LOG_LEVEL_WARN -> <<"[", "W", "]", ":", " ">>
    [] level = LOG_LEVEL_INFO -> <<"[", "I", "]", ":", " ">>
    [] level = LOG_LEVEL_DEBUG -> <<"[", "D", "]", ":", " ">>
    [] level = LOG_LEVEL_VERBOSE -> <<"[", "V", "]", ":", " ">>

(***************************************************************************)
(* State.                                                                  *)
(***************************************************************************)
VARIABLES
  handle,              \* "null" | "live" | "crashed": the caller's pLoggerContext
  created,             \* TextLogger_Create has returned a context once
  pFilePath, pErrMsg, logLevel, maxBufferByteSize, maxFileSize,
  currBytePos, totalBytesStored, fileLimitIsReached,
  pTextBuffer,         \* in-bounds bytes of the scratch buffer below currBytePos
  fileBase,            \* length of the file before the context appended to it
  fileBytes,           \* bytes this context appended to the file
  openFiles,           \* FILE handles opened and not yet closed
  status,              \* what the last public operation returned
  hist                 \* history of the run (what was accepted, flushed, written)

cfgVars == <<pFilePath, pErrMsg, logLevel, maxBufferByteSize, maxFileSize>>
ledgerVars == <<currBytePos, totalBytesStored, fileLimitIsReached, pTextBuffer>>
vars == <<handle, created, pFilePath, pErrMsg, logLevel, maxBufferByteSize,
          maxFileSize, currBytePos, totalBytesStored, fileLimitIsReached,
          pTextBuffer, fileBase, fileBytes, openFiles, status, hist>>

(***************************************************************************)
(* The mutable part of the context and of the file as one record, so that  *)
(* the functions of text_logger.c are operators from a state (and the      *)
(* outcomes of the file primitives) to a state and a returned status.      *)
(***************************************************************************)
Here ==
  [ currBytePos |-> currBytePos, totalBytesStored |-> totalBytesStored,
    fileLimitIsReached |-> fileLimitIsReached, pTextBuffer |-> pTextBuffer,
    fileBytes |-> fileBytes, openFiles |-> openFiles, hist |-> hist ]

Ret(s, st) == [st |-> s, status |-> st]

\* history: one more failure of a file primitive that the environment caused
Faulted(s, env) ==
  IF env = NoFault \/ pFilePath = <<>> THEN s ELSE [s EXCEPT !.hist.faults = @ + 1]

CRASHED == "CRASHED"

\* fopen(pFilePath, "ab"): fails when the environment says so, and always for
\* the empty path
FopenOk(env) == env.openOk /\ pFilePath # <<>>

\* return value of fwrite(ptr, 1, n, f): the number of bytes that reached the file
Fwritten(env, n) ==
  CASE env.written = "all" -> n
    [] env.written = "part" -> n \div 2

\* the n bytes fwrite reads at pTextBuffer: the bytes of the buffer, then, past
\* its end, garbage
BufferRead(s, n, env) ==
  s.pTextBuffer \o [i \in 1..(n - Len(s.pTextBuffer)) |-> env.oob]

\* history: a flush that returned st called fwrite on the buffer contents
\* data, and n of these bytes reached the file
Wrote(s, data, n, st) ==
  [s EXCEPT !.hist.writes = Append(@, [status |-> st, buffer |-> data, n |-> n])]

\* a check that looks at the room left in the scratch buffer only
TextLogger_FlushBufferIsNeeded_BufferOnly(s, lengthOfTextToAdd) ==
  (maxBufferByteSize - s.currBytePos) <= lengthOfTextToAdd

TextLogger_FlushBufferIsNeeded(s, lengthOfTextToAdd) ==
  \/ (maxFileSize - s.totalBytesStored) <= lengthOfTextToAdd
  \/ (maxBufferByteSize - s.currBytePos) <= lengthOfTextToAdd

\* fwrite returned fewer bytes than it was given
ShortWrite_Ignored(bytesWritten, n) == FALSE

ShortWrite(bytesWritten, n) == bytesWritten # n

\* the check of the accounted bytes against the file limit that opens a flush
BudgetReached_Strict(s) == maxFileSize < s.totalBytesStored

BudgetReached(s) == maxFileSize <= s.totalBytesStored

\* the limit flag is set before the error message is written, so that it is
\* written only once
LatchLimit_Forgotten(s) == s

LatchLimit(s) == [s EXCEPT !.fileLimitIsReached = TRUE]

\* the buffer position is reset at the end of a flush; the bytes below it are
\* no longer part of the buffer contents
ResetBufferPosition_Skipped(s) == s

ResetBufferPosition(s) == [s EXCEPT !.currBytePos = 0, !.pTextBuffer = <<>>]

\* fopen returned a FILE handle, which is open until fclose
Fopen(s) == [s EXCEPT !.openFiles = @ + 1]

Fclose_Forgotten(s) == s

Fclose(s) == [s EXCEPT !.openFiles = @ - 1]

\* the check for an empty buffer, made before the file is opened
BufferIsEmpty_Unchecked(s) == FALSE

BufferIsEmpty(s) == 0 = s.currBytePos

TextLogger_FlushErrMsgToFileStream(s, env) ==
  IF ~FopenOk(env) THEN Ret(Faulted(s, env), TEXTLOGGER_ERR_FILE_ERROR)
  ELSE
    LET n == Len(pErrMsg)
        bytesWritten == Fwritten(env, n)
        s1 == [Fopen(s) EXCEPT
                 !.fileBytes = @ \o SubSeq(pErrMsg, 1, bytesWritten),
                 !.hist.markers = Append(@, [pos |-> Len(s.fileBytes),
                                             len |-> bytesWritten])]
    IN  IF ShortWrite(bytesWritten, n)
        THEN Ret(Fclose(Faulted(s1, env)), TEXTLOGGER_ERR_FILE_ERROR)
        ELSE Ret(Fclose(s1), TEXTLOGGER_SUCCESS)

TextLogger_FlushTextToFileStream(s, env) ==
  IF BudgetReached(s) THEN
    IF ~s.fileLimitIsReached THEN
      LET r == TextLogger_FlushErrMsgToFileStream(LatchLimit(s), env)
      IN  IF r.status = TEXTLOGGER_ERR_FILE_ERROR
          THEN Ret(r.st, TEXTLOGGER_ERR_FILE_ERROR)
          ELSE Ret(r.st, TEXTLOGGER_ERR_INSUFFICIENT_FILE_SPACE)
    ELSE Ret(s, TEXTLOGGER_ERR_INSUFFICIENT_FILE_SPACE)
  ELSE IF BufferIsEmpty(s) THEN Ret(s, TEXTLOGGER_SUCCESS)
  ELSE IF ~FopenOk(env) THEN Ret(Faulted(s, env), TEXTLOGGER_ERR_FILE_ERROR)
  ELSE
    LET currFileSize == fileBase + Len(s.fileBytes)
    IN  IF s.currBytePos + currFileSize > maxFileSize THEN
          Ret(ResetBufferPosition(Fclose(
                [Fopen(s) EXCEPT !.fileLimitIsReached = TRUE,
                                 !.hist.dropped = @ + s.currBytePos])),
              TEXTLOGGER_ERR_INSUFFICIENT_FILE_SPACE)
        ELSE IF s.currBytePos > Len(s.pTextBuffer) /\ env.oob = "crash" THEN
          Ret(Fopen(s), CRASHED)
        ELSE
          LET data == BufferRead(s, s.currBytePos, env)
              bytesWritten == Fwritten(env, s.currBytePos)
              s1 == [Fopen(s) EXCEPT !.fileBytes = @ \o SubSeq(data, 1, bytesWritten)]
          IN  IF ShortWrite(bytesWritten, s.currBytePos)
              THEN Ret(Wrote(Fclose(Faulted(s1, env)), data, bytesWritten,
                             TEXTLOGGER_ERR_FILE_ERROR),
                       TEXTLOGGER_ERR_FILE_ERROR)
              ELSE Ret(Wrote(ResetBufferPosition(Fclose(s1)),
                             data, bytesWritten, TEXTLOGGER_SUCCESS),
                       TEXTLOGGER_SUCCESS)

\* snprintf(pTextBuffer + currBytePos, maxBufferByteSize - currBytePos, ...)
\* and the two += bytesWritten that follow it
BufferPrint(s, str) ==
  LET bytesWritten == Len(str)
  IN  [s EXCEPT !.pTextBuffer =
                   @ \o SnprintfStored(maxBufferByteSize - s.currBytePos, str),
                !.currBytePos = @ + bytesWritten,
                !.totalBytesStored = @ + bytesWritten]

TextLogger_LogTimeStamp(s, tm, env) ==
  LET pTimeBuffer == TimeStampString(tm)
  IN  IF TextLogger_FlushBufferIsNeeded(s, Len(pTimeBuffer)) THEN
        LET r == TextLogger_FlushTextToFileStream(s, env)
        IN  IF r.status # TEXTLOGGER_SUCCESS THEN r
            ELSE Ret(BufferPrint(r.st, pTimeBuffer), TEXTLOGGER_SUCCESS)
      ELSE Ret(BufferPrint(s, pTimeBuffer), TEXTLOGGER_SUCCESS)

TextLogger_WriteToBuffer(s, pLogText, logLength, level, tm, env1, env2) ==
  LET line == LogMsgTag(level) \o pLogText \o <<"\n">>
      r1 == TextLogger_LogTimeStamp(s, tm, env1)
  IN  IF r1.status # TEXTLOGGER_SUCCESS THEN r1
      ELSE IF TextLogger_FlushBufferIsNeeded(r1.st, logLength) THEN
        LET r2 == TextLogger_FlushTextToFileStream(r1.st, env2)
        IN  IF r2.status # TEXTLOGGER_SUCCESS THEN r2
            ELSE Ret(BufferPrint(r2.st, line), TEXTLOGGER_SUCCESS)
      ELSE Ret(BufferPrint(r1.st, line), TEXTLOGGER_SUCCESS)

TextLogger_LogError(s, pLogText, tm, env1, env2) ==
  IF LOG_LEVEL_ERROR <= logLevel
  THEN TextLogger_WriteToBuffer(s, pLogText, Len(pLogText) + LOG_EXTRA_STR_LENGTH,
                                LOG_LEVEL_ERROR, tm, env1, env2)
  ELSE Ret(s, TEXTLOGGER_SUCCESS)

TextLogger_LogWarn(s, pLogText, tm, env1, env2) ==
  IF LOG_LEVEL_WARN <= logLevel
  THEN TextLogger_WriteToBuffer(s, pLogText, Len(pLogText) + LOG_EXTRA_STR_LENGTH,
                                LOG_LEVEL_WARN, tm, env1, env2)
  ELSE Ret(s, TEXTLOGGER_SUCCESS)

TextLogger_LogInfo(s, pLogText, tm, env1, env2) ==
  IF LOG_LEVEL_INFO <= logLevel
  THEN TextLogger_WriteToBuffer(s, pLogText, Len(pLogText) + LOG_EXTRA_STR_LENGTH,
                                LOG_LEVEL_INFO, tm, env1, env2)
  ELSE Ret(s, TEXTLOGGER_SUCCESS)

TextLogger_LogDebug_Unfiltered(s, pLogText, tm, env1, env2) ==
  TextLogger_WriteToBuffer(s, pLogText, Len(pLogText) + LOG_EXTRA_STR_LENGTH,
                           LOG_LEVEL_DEBUG, tm, env1, env2)

TextLogger_LogDebug(s, pLogText, tm, env1, env2) ==
  IF LOG_LEVEL_DEBUG <= logLevel
  THEN TextLogger_WriteToBuffer(s, pLogText, Len(pLogText) + LOG_EXTRA_STR_LENGTH,
                                LOG_LEVEL_DEBUG, tm, env1, env2)
  ELSE Ret(s, TEXTLOGGER_SUCCESS)

TextLogger_LogVerbose(s, pLogText, tm, env1, env2) ==
  IF LOG_LEVEL_VERBOSE <= logLevel
  THEN TextLogger_WriteToBuffer(s, pLogText, Len(pLogText) + LOG_EXTRA_STR_LENGTH,
                                LOG_LEVEL_VERBOSE, tm, env1, env2)
  ELSE Ret(s, TEXTLOGGER_SUCCESS)

\* the two fopen/ftell/fclose rounds of TextLogger_PrintCurrFileSize
TextLogger_PrintCurrFileSize(s, env1, env2) ==
  IF ~FopenOk(env1) THEN Ret(Faulted(s, env1), TEXTLOGGER_ERR_FILE_ERROR)
  ELSE
    LET s1 == Fclose(Fopen(s))
    IN  IF ~FopenOk(env2) THEN Ret(Faulted(s1, env2), TEXTLOGGER_ERR_FILE_ERROR)
        ELSE Ret(Fclose(Fopen(s1)), TEXTLOGGER_SUCCESS)

(***************************************************************************)
(* The public operations.                                                  *)
(***************************************************************************)
NoHist == [accepted |-> <<>>, writes |-> <<>>, markers |-> <<>>,
           dropped |-> 0, faults |-> 0, budget |-> 0,
           insufficient |-> FALSE, flushedSince |-> FALSE]

Init ==
  /\ handle = "null"
  /\ created = FALSE
  /\ pFilePath = <<>>
  /\ pErrMsg = <<>>
  /\ logLevel = 0
  /\ maxBufferByteSize = 0
  /\ maxFileSize = 0
  /\ currBytePos = 0
  /\ totalBytesStored = 0
  /\ fileLimitIsReached = FALSE
  /\ pTextBuffer = <<>>
  /\ fileBase \in InitLens
  /\ fileBytes = <<>>
  /\ openFiles = 0
  /\ status = "none"
  /\ hist = NoHist

\* maxFileSize of the context: the caller's budget less the room reserved for
\* the error message
EffectiveFileSize_NoReserve(budget, errMsg) == budget

\* maxFileSize - (strlen(pErrMsg) + 1) is computed in size_t and stored in an
\* int: the difference modulo 2^32, taken as a two's complement number
EffectiveFileSize(budget, errMsg) ==
  LET reserved == Len(errMsg) + 1
  IN  IF budget >= INT_MIN + reserved
      THEN budget - reserved
      ELSE (budget - INT_MIN) + ((INT_MAX - reserved) + 1)

\* TextLogger_Create returns a context: the value of maxFileSize it computed
\* is positive and none of its allocations failed.  The scratch buffer is
\* malloc(maxBufferByteSize): a negative size converts to a huge size_t, which
\* no allocator grants.
CreateSucceeds(pathIsNull, errMsg, errIsNull, cap, budget, mallocFails) ==
  /\ ~pathIsNull /\ ~errIsNull
  /\ mallocFails # 1
  /\ ~(0 >= EffectiveFileSize(budget, errMsg))
  /\ mallocFails # 2
  /\ mallocFails # 3 /\ cap >= 0
  /\ mallocFails # 4

CreateWith(args) ==
  /\ handle = "null" /\ ~created
  /\ \E a \in args, pathIsNull \in BOOLEAN, errIsNull \in BOOLEAN,
        mallocFails \in MallocFailures :
       /\ IF CreateSucceeds(pathIsNull, a.errMsg, errIsNull, a.cap, a.budget, mallocFails)
          THEN /\ handle' = "live"
               /\ created' = TRUE
               /\ pFilePath' = a.path
               /\ pErrMsg' = a.errMsg
               /\ logLevel' = a.level
               /\ maxBufferByteSize' = a.cap
               /\ maxFileSize' = EffectiveFileSize(a.budget, a.errMsg)
               /\ currBytePos' = 0
               /\ totalBytesStored' = 0
               /\ fileLimitIsReached' = FALSE
               /\ pTextBuffer' = <<>>
               /\ hist' = [NoHist EXCEPT !.budget = a.budget]
               /\ status' = "context"
          ELSE /\ status' = "NULL"
               /\ UNCHANGED <<handle, created, cfgVars, ledgerVars, hist>>
       /\ UNCHANGED <<fileBase, fileBytes, openFiles>>

Create == CreateWith(CreateArgs)

\* an operation on the live context returns: its effects and its status
Commit(r) ==
  /\ r.st.hist.faults <= MaxFaults
  /\ currBytePos' = r.st.currBytePos
  /\ totalBytesStored' = r.st.totalBytesStored
  /\ fileLimitIsReached' = r.st.fileLimitIsReached
  /\ pTextBuffer' = r.st.pTextBuffer
  /\ fileBytes' = r.st.fileBytes
  /\ openFiles' = r.st.openFiles
  /\ hist' = [r.st.hist EXCEPT
                !.insufficient = @ \/ r.status = TEXTLOGGER_ERR_INSUFFICIENT_FILE_SPACE]
  /\ status' = r.status
  /\ UNCHANGED <<created, cfgVars, fileBase>>

\* a public entry point finds a NULL argument
Invalid ==
  /\ status' = TEXTLOGGER_ERR_INVALID_INPUT
  /\ UNCHANGED <<handle, created, cfgVars, ledgerVars, fileBase, fileBytes,
                 openFiles, hist>>

\* the context survives the call unless the process died in it
Survive(r) == handle' = IF r.status = CRASHED THEN "crashed" ELSE "live"

\* history: a flush was called after a call had returned INSUFFICIENT_FILE_SPACE
FlushCalled(r) ==
  [r EXCEPT !.st.hist.flushedSince = @ \/ hist.insufficient]

\* history: the bytes of the records and timestamps whose call returned SUCCESS
Accept(r, bytes) ==
  IF r.status = TEXTLOGGER_SUCCESS
  THEN [r EXCEPT !.st.hist.accepted = @ \o bytes]
  ELSE r

RecordBytes(level, pLogText, tm) ==
  TimeStampString(tm) \o LogMsgTag(level) \o pLogText \o <<"\n">>

\* the entry point of each severity
LogOp(level, s, pLogText, tm, env1, env2) ==
  CASE level = LOG_LEVEL_ERROR -> TextLogger_LogError(s, pLogText, tm, env1, env2)
    [] level = LOG_LEVEL_WARN -> TextLogger_LogWarn(s, pLogText, tm, env1, env2)
    [] level = LOG_LEVEL_INFO -> TextLogger_LogInfo(s, pLogText, tm, env1, env2)
    [] level = LOG_LEVEL_DEBUG -> TextLogger_LogDebug(s, pLogText, tm, env1, env2)
    [] level = LOG_LEVEL_VERBOSE -> TextLogger_LogVerbose(s, pLogText, tm, env1, env2)

\* a per-severity call on the live context, with one of the texts
LiveLogOf(level, texts) ==
     /\ handle = "live"
     /\ \E pLogText \in texts, tm \in Clocks :
        \E env1 \in EnvsIf(TextLogger_FlushBufferIsNeeded(Here, Len(TimeStampString(tm)))) :
        \E env2 \in EnvsIf(LET r1 == TextLogger_LogTimeStamp(Here, tm, env1)
                           IN  /\ r1.status = TEXTLOGGER_SUCCESS
                               /\ TextLogger_FlushBufferIsNeeded(r1.st,
                                     Len(pLogText) + LOG_EXTRA_STR_LENGTH)) :
          LET r == LogOp(level, Here, pLogText, tm, env1, env2)
              admitted == r.st.totalBytesStored # totalBytesStored
          IN  /\ Commit(IF admitted THEN Accept(r, RecordBytes(level, pLogText, tm)) ELSE r)
              /\ Survive(r)

LiveLog(level) == LiveLogOf(level, LogTexts)

\* a per-severity entry point: either argument may be NULL
LogCallOf(level, texts) ==
  \/ LiveLogOf(level, texts)
  \/ /\ handle \in {"null", "live"}
     /\ Invalid

LogCall(level) == LogCallOf(level, LogTexts)

LogError == LogCall(LOG_LEVEL_ERROR)
LogWarn == LogCall(LOG_LEVEL_WARN)
LogInfo == LogCall(LOG_LEVEL_INFO)
LogDebug == LogCall(LOG_LEVEL_DEBUG)
LogVerbose == LogCall(LOG_LEVEL_VERBOSE)

LogTimeStamp ==
  \/ /\ handle = "live"
     /\ \E tm \in Clocks :
        \E env \in EnvsIf(TextLogger_FlushBufferIsNeeded(Here, Len(TimeStampString(tm)))) :
          LET r == TextLogger_LogTimeStamp(Here, tm, env)
          IN  /\ Commit(Accept(r, TimeStampString(tm)))
              /\ Survive(r)
  \/ /\ handle = "null"
     /\ Invalid

Flush ==
  \/ /\ handle = "live"
     /\ \E env \in FileEnvs :
          LET r == TextLogger_FlushTextToFileStream(Here, env)
          IN  /\ Commit(FlushCalled(r))
              /\ Survive(r)
  \/ /\ handle = "null"
     /\ Invalid

PrintCurrFileSize ==
  \/ /\ handle = "live"
     /\ \E env1 \in OpenEnvs, env2 \in OpenEnvs :
          LET r == TextLogger_PrintCurrFileSize(Here, env1, env2)
          IN  /\ Commit(r)
              /\ Survive(r)
  \/ /\ handle = "null"
     /\ Invalid

\* a destroy that frees the context without the final flush
Destroy_NoFlush ==
  \/ /\ handle = "live"
     /\ Commit(Ret(Here, TEXTLOGGER_SUCCESS))
     /\ handle' = "null"
  \/ /\ handle = "null"
     /\ Invalid

\* TextLogger_Destroy: the final flush, then every owned region is freed and
\* the caller drops the pointer
Destroy ==
  \/ /\ handle = "live"
     /\ \E env \in FileEnvs :
          LET r == TextLogger_FlushTextToFileStream(Here, env)
          IN  /\ Commit(FlushCalled(r))
              /\ handle' = IF r.status = CRASHED THEN "crashed" ELSE "null"
  \/ /\ handle = "null"
     /\ Invalid

Next ==
  \/ Create
  \/ Destroy
  \/ LogTimeStamp
  \/ LogError
  \/ LogWarn
  \/ LogInfo
  \/ LogDebug
  \/ LogVerbose
  \/ Flush
  \/ PrintCurrFileSize

Spec == Init /\ [][Next]_vars

Live == handle = "live"

TypeOK ==
  /\ handle \in {"null", "live", "crashed"}
  /\ currBytePos >= 0 /\ totalBytesStored >= currBytePos
  /\ Len(pTextBuffer) = Min(currBytePos, Max(maxBufferByteSize, 0))

(***************************************************************************)
(* The context of the driver (app.c), used for a bounded number of calls   *)
(* on a file that starts empty.                                            *)
(***************************************************************************)
MAX_STR_BYTE_SIZE == 1024
MAX_FILE_SIZE == 2048
spFileLimitErrMsg == <<"\n", "[", "E", "R", "R", " ", "L", "I", "M", "I", "T", "]">>

DriverArgs ==
  [path |-> LogFile, errMsg |-> spFileLimitErrMsg, level |-> LOG_LEVEL_VERBOSE,
   cap |-> MAX_STR_BYTE_SIZE, budget |-> MAX_FILE_SIZE]
DriverTexts == {<<"h", "e", "l", "l", "o">>}

DriverInit == Init /\ fileBase = 0

DriverCreate == CreateWith({DriverArgs})

\* the driver stops logging once MaxDriverLogged bytes are accounted
DriverLogs == totalBytesStored < MaxDriverLogged

DriverLogCall(level) == DriverLogs /\ LogCallOf(level, DriverTexts)

DriverLogError == DriverLogCall(LOG_LEVEL_ERROR)
DriverLogWarn == DriverLogCall(LOG_LEVEL_WARN)
DriverLogInfo == DriverLogCall(LOG_LEVEL_INFO)
DriverLogDebug == DriverLogCall(LOG_LEVEL_DEBUG)
DriverLogVerbose == DriverLogCall(LOG_LEVEL_VERBOSE)
DriverLogTimeStamp == DriverLogs /\ LogTimeStamp

DriverNext ==
  \/ DriverCreate
  \/ Destroy
  \/ DriverLogTimeStamp
  \/ DriverLogError
  \/ DriverLogWarn
  \/ DriverLogInfo
  \/ DriverLogDebug
  \/ DriverLogVerbose
  \/ Flush
  \/ PrintCurrFileSize

DriverSpec == DriverInit /\ [][DriverNext]_vars

(***************************************************************************)
(* Contexts created with file budgets from the whole range of int and used *)
(* for a bounded number of calls.                                          *)
(***************************************************************************)
BudgetInputs == {INT_MIN, INT_MIN + 4, -1, 0, 1, 2, 3, 4, 5, 200, INT_MAX}
BudgetArgs ==
  { [path |-> LogFile, errMsg |-> m, level |-> LOG_LEVEL_ERROR,
     cap |-> MaxCapacity, budget |-> b] : m \in {<<"X">>, EndMarker}, b \in BudgetInputs }

BudgetCreate == CreateWith(BudgetArgs)

BudgetNext ==
  \/ BudgetCreate
  \/ Destroy
  \/ DriverLogError
  \/ Flush

BudgetSpec == DriverInit /\ [][BudgetNext]_vars

(***************************************************************************)
(* Vocabulary of the properties.                                           *)
(***************************************************************************)
IsPrefix(a, b) == Len(a) <= Len(b) /\ a = SubSeq(b, 1, Len(a))
IsSuffix(a, b) == Len(a) <= Len(b) /\ a = SubSeq(b, Len(b) - Len(a) + 1, Len(b))

\* the context exists and the process is alive, also after destroy returned
Existed == created /\ handle # "crashed"

\* the file bytes of the context up to where the end-marker was written
RecordPart ==
  IF hist.markers = <<>> THEN fileBytes
  ELSE SubSeq(fileBytes, 1, hist.markers[1].pos)

\* the bytes the fwrite calls of the flushes put in the file, in call order
RECURSIVE WrittenBy(_)
WrittenBy(ws) ==
  IF ws = <<>> THEN <<>>
  ELSE SubSeq(Head(ws).buffer, 1, Head(ws).n) \o WrittenBy(Tail(ws))

\* the buffer contents of the flushes that returned SUCCESS, in call order
RECURSIVE FlushedOk(_)
FlushedOk(ws) ==
  IF ws = <<>> THEN <<>>
  ELSE (IF Head(ws).status = TEXTLOGGER_SUCCESS THEN Head(ws).buffer ELSE <<>>)
       \o FlushedOk(Tail(ws))

Severities == LOG_LEVEL_ERROR..LOG_LEVEL_VERBOSE

\* a per-severity call that passes the level filter
AdmittedLog == \E level \in Severities : level <= logLevel /\ LiveLog(level)

\* the call made in this step returned to its caller
Returned == handle' # "crashed"

\* a public operation on the live context
LiveCall == Live /\ Returned /\ Next

\* C1: after every public operation 0 <= buffer_used <= buffer_capacity, also
\* when a record is longer than the buffer
C1_BufferUsedWithinCapacity ==
  Live => (0 <= currBytePos /\ currBytePos <= maxBufferByteSize)

\* C2 (as claimed): after every public operation total_written <=
\* file_budget_effective or marker_emitted
C2_TotalWithinBudgetOrMarker ==
  Live => (totalBytesStored <= maxFileSize \/ fileLimitIsReached)

\* C2 (amended): total_written exceeds the budget only by bytes that are
\* still pending in the scratch buffer: total_written - buffer_used stays
\* below file_budget_effective
C2_DrainedBelowBudget ==
  Live => totalBytesStored - currBytePos < maxFileSize

\* C2 witness: a call returned SUCCESS and left total_written above the budget
\* with the marker flag still false
C2_Witness ==
  /\ Live /\ status = TEXTLOGGER_SUCCESS
  /\ totalBytesStored > maxFileSize /\ ~fileLimitIsReached

\* C3: once marker_emitted is true every later flush, log_timestamp and
\* admitted log call returns INSUFFICIENT_FILE_SPACE and changes neither
\* buffer_used nor total_written nor the file
C3_LatchedMeansFrozen ==
  [][ (Live /\ fileLimitIsReached /\ Returned
         /\ (Flush \/ LogTimeStamp \/ AdmittedLog))
      => (/\ status' = TEXTLOGGER_ERR_INSUFFICIENT_FILE_SPACE
          /\ UNCHANGED <<currBytePos, totalBytesStored, fileBytes>>) ]_vars

\* C4: after the first INSUFFICIENT_FILE_SPACE and, at the latest, the flush
\* that follows it, the end-marker has been written exactly once and is the
\* suffix of the bytes the context put in the file
C4_MarkerOnceAsSuffix ==
  (Existed /\ hist.insufficient /\ hist.flushedSince)
    => (Len(hist.markers) = 1 /\ IsSuffix(pErrMsg, fileBytes))

\* C5: the end-marker is written at most once in the life of a context, and
\* nothing is appended to the file after it
C5_MarkerAtMostOnceAndLast ==
  created =>
    /\ Len(hist.markers) <= 1
    /\ hist.markers # <<>> =>
         Len(fileBytes) = hist.markers[1].pos + hist.markers[1].len

\* C5 witness: the marker was written in full and a flush was called after it
C5_Witness ==
  /\ Existed /\ Len(hist.markers) = 1
  /\ hist.markers[1].len = Len(pErrMsg) /\ hist.markers[1].pos > 0
  /\ hist.insufficient /\ hist.flushedSince

\* C6: the bytes the context appends to the file, end-marker included, never
\* exceed the caller's raw budget; a file that started empty is never longer
\* than the raw budget
C6_WithinRawBudget ==
  created =>
    /\ Len(fileBytes) <= hist.budget
    /\ fileBase = 0 => fileBase + Len(fileBytes) <= hist.budget

\* C6 witness: the budget ran out on an initially empty file: records and the
\* whole marker are in it
C6_Witness ==
  /\ Existed /\ fileBase = 0 /\ Len(hist.markers) = 1
  /\ hist.markers[1].len = Len(pErrMsg) /\ hist.markers[1].pos > 0
  /\ Len(fileBytes) > maxFileSize - Len(TimeStampString(CHOOSE tm \in Clocks : TRUE))

\* C7: the bytes the context appended to the file are a prefix of the
\* concatenation of the accepted records, optionally followed by the
\* end-marker
C7_FileIsPrefixOfAccepted ==
  Existed =>
    \/ IsPrefix(fileBytes, hist.accepted)
    \/ /\ IsSuffix(pErrMsg, fileBytes)
       /\ IsPrefix(SubSeq(fileBytes, 1, Len(fileBytes) - Len(pErrMsg)), hist.accepted)

\* C8 (as claimed): the file bytes before the marker are the concatenation of
\* the buffer contents at the flushes that returned SUCCESS; a flush that
\* returned FILE_ERROR or INSUFFICIENT_FILE_SPACE contributed nothing
C8_FileIsSuccessfulFlushes ==
  Existed => RecordPart = FlushedOk(hist.writes)

\* C8 (amended): the file bytes before the marker are the concatenation of
\* what the flushes wrote: the whole buffer for a flush that returned
\* SUCCESS, the leading bytes fwrite reported for one that returned
\* FILE_ERROR on a short write, nothing for any other flush
C8_FileIsWhatFlushesWrote ==
  Existed =>
    /\ RecordPart = WrittenBy(hist.writes)
    /\ \A i \in 1..Len(hist.writes) :
         LET w == hist.writes[i]
         IN  \/ w.status = TEXTLOGGER_SUCCESS /\ w.n = Len(w.buffer)
             \/ w.status = TEXTLOGGER_ERR_FILE_ERROR /\ w.n < Len(w.buffer)

\* C8 witness: a short write left bytes in the file and a later flush
\* succeeded
C8_Witness ==
  /\ Existed /\ Len(hist.writes) >= 2
  /\ hist.writes[1].status = TEXTLOGGER_ERR_FILE_ERROR /\ hist.writes[1].n > 0
  /\ hist.writes[2].status = TEXTLOGGER_SUCCESS

\* the tag letters the level filter lets through
TagLetter(level) == LogMsgTag(level)[2]
AdmittedTags == {TagLetter(level) : level \in {l \in Severities : l <= logLevel}}

\* every tag "[x]:" in the bytes b is the tag of an admitted severity
OnlyAdmittedTags(b) ==
  \A i \in 1..(Len(b) - 3) :
    (b[i] = "[" /\ b[i + 2] = "]" /\ b[i + 3] = ":") => b[i + 1] \in AdmittedTags

\* the outcomes of every per-severity call that can be made in this state and
\* returns
LogOutcomes(level) ==
  { [text |-> pLogText, tm |-> tm,
     r |-> LogOp(level, Here, pLogText, tm, env1, env2)] :
      pLogText \in LogTexts, tm \in Clocks, env1 \in FileEnvs, env2 \in FileEnvs }

\* the call appended its record: the ledger advanced by the length of the
\* timestamp and of the tagged line, which is the last thing put in the buffer
RecordAppended(level, o) ==
  /\ o.r.st.totalBytesStored =
       totalBytesStored + Len(RecordBytes(level, o.text, o.tm))
  /\ o.r.st.currBytePos >= Len(LogMsgTag(level) \o o.text \o <<"\n">>)

\* a call of level S > M: SUCCESS, and ledger, buffer and file as before
DroppedQuietly(o) ==
  /\ o.r.status = TEXTLOGGER_SUCCESS
  /\ o.r.st = Here

\* C9 (as claimed): a per-severity call of level S appends a record iff
\* S <= M; for S > M it returns SUCCESS and changes nothing
C9_AppendsIffAdmitted ==
  Live =>
    \A level \in Severities : \A o \in LogOutcomes(level) :
      o.r.status # CRASHED =>
        /\ (level <= logLevel) <=> RecordAppended(level, o)
        /\ level > logLevel => DroppedQuietly(o)

\* C9 (amended): a per-severity call of level S appends a record iff S <= M
\* and the call returns SUCCESS; for S > M it returns SUCCESS and changes
\* nothing; buffer and file only ever hold tags of admitted severities
C9_AppendsIffAdmittedAndSuccess ==
  /\ Existed => OnlyAdmittedTags(pTextBuffer) /\ OnlyAdmittedTags(fileBytes)
  /\ Live =>
       \A level \in Severities : \A o \in LogOutcomes(level) :
         o.r.status # CRASHED =>
           /\ (level <= logLevel /\ o.r.status = TEXTLOGGER_SUCCESS)
                <=> RecordAppended(level, o)
           /\ level > logLevel => DroppedQuietly(o)

\* C9 witness: with min_level INFO an Info record is in the file, the buffer
\* holds another record, and a call other than a flush returned SUCCESS
\* without touching the buffer, as a Debug or Verbose call does
C9_Witness ==
  /\ Live /\ logLevel = LOG_LEVEL_INFO
  /\ \E i \in 1..(Len(fileBytes) - 3) :
       /\ fileBytes[i] = "[" /\ fileBytes[i + 1] = TagLetter(LOG_LEVEL_INFO)
       /\ fileBytes[i + 2] = "]" /\ fileBytes[i + 3] = ":"
  /\ currBytePos > Len(TimeStampString(CHOOSE tm \in Clocks : TRUE))
  /\ status = TEXTLOGGER_SUCCESS

\* C10: a public operation that returns FILE_ERROR leaves the scratch buffer,
\* buffer_used, marker_emitted and total_written as they were before the call
C10_FileErrorChangesNothing ==
  [][ (LiveCall /\ status' = TEXTLOGGER_ERR_FILE_ERROR)
      => UNCHANGED <<pTextBuffer, currBytePos, fileLimitIsReached,
                     totalBytesStored>> ]_vars

\* the outcomes of every flush call that can be made in this state and whose
\* fopen succeeds
FlushOutcomes ==
  { TextLogger_FlushTextToFileStream(Here, env) : env \in {e \in FileEnvs : FopenOk(e)} }

\* a flush in this state takes the overshoot branch: the accounted bytes are
\* below the budget, the buffer is not empty and does not fit in the file
OvershootBranch ==
  /\ totalBytesStored < maxFileSize
  /\ currBytePos > 0
  /\ fileBase + Len(fileBytes) + currBytePos > maxFileSize

\* C11: in the overshoot branch flush returns INSUFFICIENT_FILE_SPACE, sets
\* marker_emitted, appends nothing to the file and does not drain the scratch
\* buffer: buffer_used and the buffered bytes are as before the call
C11_OvershootKeepsBuffer ==
  (Live /\ OvershootBranch) =>
    \A r \in FlushOutcomes :
      /\ r.status = TEXTLOGGER_ERR_INSUFFICIENT_FILE_SPACE
      /\ r.st.fileLimitIsReached
      /\ r.st.fileBytes = fileBytes
      /\ r.st.currBytePos = currBytePos
      /\ r.st.pTextBuffer = pTextBuffer

\* the record of a per-severity call fits in the empty scratch buffer
RecordFits(level, o) == Len(RecordBytes(level, o.text, o.tm)) < maxBufferByteSize

\* C12: no record is split across flushes: after every per-severity call that
\* appended its record (here: a record that fits in the buffer), the
\* timestamp and the tagged line are in the scratch buffer together, and when
\* the call flushed, the whole record is what the emptied buffer holds
C12_RecordNotSplit ==
  Live =>
    \A level \in Severities : \A o \in LogOutcomes(level) :
      (level <= logLevel /\ o.r.status = TEXTLOGGER_SUCCESS /\ RecordFits(level, o)) =>
        /\ IsSuffix(RecordBytes(level, o.text, o.tm), o.r.st.pTextBuffer)
        /\ o.r.st.hist.writes # hist.writes =>
             o.r.st.pTextBuffer = RecordBytes(level, o.text, o.tm)

\* the bytes b are a sequence of complete records: timestamp, tag, payload
\* and newline each
RECURSIVE IsRecords(_)
IsRecords(b) ==
  \/ b = <<>>
  \/ \E level \in Severities, pLogText \in LogTexts, tm \in Clocks :
       LET rec == RecordBytes(level, pLogText, tm)
       IN  IsPrefix(rec, b) /\ IsRecords(SubSeq(b, Len(rec) + 1, Len(b)))

\* only per-severity calls have put bytes in the buffer (no log_timestamp
\* call did), no file primitive has failed and a record fits in the buffer
OnlyRecordsLogged ==
  /\ IsRecords(hist.accepted)
  /\ hist.faults = 0
  /\ \A level \in Severities, pLogText \in LogTexts, tm \in Clocks :
       Len(RecordBytes(level, pLogText, tm)) < maxBufferByteSize

\* C13: when only per-severity log calls, flush and destroy are used, the
\* bytes the context wrote to the file are always a sequence of complete
\* records, and the end-marker, when written, directly follows the last
\* complete record (here: in runs without file errors, with records that fit
\* in the buffer)
C13_FileIsCompleteRecords ==
  (Existed /\ OnlyRecordsLogged) =>
    /\ IsRecords(RecordPart)
    /\ hist.markers # <<>> =>
         fileBytes = RecordPart \o SubSeq(pErrMsg, 1, hist.markers[1].len)

\* scenario S1 has run: on the driver's context and an empty file one Info
\* record "hello" was logged, nothing else, and then a flush wrote the buffer
\* and returned SUCCESS
S1Ran ==
  /\ Existed /\ fileBase = 0
  /\ pErrMsg = spFileLimitErrMsg /\ logLevel = LOG_LEVEL_VERBOSE
  /\ maxBufferByteSize = MAX_STR_BYTE_SIZE
  /\ hist.budget = MAX_FILE_SIZE
  /\ hist.faults = 0
  /\ \E pLogText \in DriverTexts, tm \in Clocks :
       hist.accepted = RecordBytes(LOG_LEVEL_INFO, pLogText, tm)
  /\ Len(hist.writes) = 1 /\ hist.writes[1].status = TEXTLOGGER_SUCCESS

\* the bytes b are a timestamp prefix "[YYYY-MM-DD | HH:MM:SS] "
Digits == {"0", "1", "2", "3", "4", "5", "6", "7", "8", "9"}
IsTimeStamp(b) ==
  /\ Len(b) = 24
  /\ \A i \in 1..24 :
       b[i] = CASE i = 1 -> "["
                [] i \in {6, 9} -> "-"
                [] i \in {12, 14, 24} -> " "
                [] i = 13 -> "|"
                [] i \in {17, 20} -> ":"
                [] i = 23 -> "]"
                [] OTHER -> IF b[i] \in Digits THEN b[i] ELSE "digit"

\* the file holds one record: a timestamp of 24 bytes, then "[I]: hello\n"
S1File ==
  /\ IsTimeStamp(SubSeq(fileBytes, 1, Min(24, Len(fileBytes))))
  /\ SubSeq(fileBytes, 25, Len(fileBytes))
       = <<"[", "I", "]", ":", " ", "h", "e", "l", "l", "o", "\n">>

\* C14 (as claimed): after scenario S1 buffer_used is 0 and the file holds
\* exactly one record, a 24-byte timestamp followed by "[I]: hello\n",
\* totalling 33 bytes, and total_written equals that file length
C14_S1FileIs33Bytes ==
  S1Ran =>
    /\ currBytePos = 0
    /\ S1File
    /\ Len(fileBytes) = 33
    /\ totalBytesStored = Len(fileBytes)

\* C14 (amended): the same, with a file of 35 bytes: 24 of the timestamp, 5
\* of the tag, 5 of the payload and the newline
C14_S1FileIs35Bytes ==
  S1Ran =>
    /\ currBytePos = 0
    /\ S1File
    /\ Len(fileBytes) = 35
    /\ totalBytesStored = Len(fileBytes)

\* C14 witness: scenario S1 has run and the context is still live
C14_Witness == Live /\ S1Ran /\ status = TEXTLOGGER_SUCCESS /\ fileBytes # <<>>

\* C15: every flush call that returns SUCCESS leaves buffer_used = 0
C15_SuccessfulFlushEmptiesBuffer ==
  [][ (Live /\ Flush /\ status' = TEXTLOGGER_SUCCESS) => currBytePos' = 0 ]_vars

\* C15 witness: the last call returned SUCCESS and the buffer is empty after a
\* flush wrote its bytes to the file
C15_Witness ==
  /\ Live /\ status = TEXTLOGGER_SUCCESS
  /\ hist.writes # <<>>
  /\ hist.writes[Len(hist.writes)].status = TEXTLOGGER_SUCCESS
  /\ fileBytes # <<>> /\ currBytePos = 0 /\ totalBytesStored > 0

\* C16: a flush on an empty buffer with budget remaining returns SUCCESS
\* whatever the file primitives would do (it does not open the file), does
\* not grow the file and leaves the ledger unchanged; the state after it is
\* again one of these, so repeated flushes have the effect of one
C16_FlushOnEmptyIsIdempotent ==
  [][ (Live /\ currBytePos = 0 /\ totalBytesStored < maxFileSize /\ Flush)
      => (/\ status' = TEXTLOGGER_SUCCESS
          /\ UNCHANGED <<ledgerVars, fileBytes, openFiles>>
          /\ hist'.faults = hist.faults /\ hist'.writes = hist.writes) ]_vars

\* C16 witness: all that was logged is one timestamp, which a flush dropped
\* when it returned INSUFFICIENT_FILE_SPACE; a flush called after that found
\* the buffer empty and the budget not reached, and the last call returned
\* SUCCESS
C16_Witness ==
  /\ Live /\ status = TEXTLOGGER_SUCCESS
  /\ currBytePos = 0 /\ totalBytesStored < maxFileSize
  /\ hist.insufficient /\ hist.flushedSince
  /\ hist.dropped = totalBytesStored
  /\ \E tm \in Clocks : hist.dropped = Len(TimeStampString(tm))

\* C17: create returns a null handle whenever file_budget <= len(end_marker)
\* + 1, and in every context it returns file_budget_effective is file_budget
\* - (len(end_marker) + 1) and positive
C17_BudgetValidated ==
  created =>
    /\ hist.budget > Len(pErrMsg) + 1
    /\ maxFileSize = hist.budget - (Len(pErrMsg) + 1)
    /\ maxFileSize > 0

\* C18: a create call whose file_path is the empty string returns a null
\* handle: no context with an empty path ever exists, and so nothing
\* allocated for one outlives the call
C18_EmptyPathRejected ==
  created => pFilePath # <<>>

\* C19: destroy on a non-null handle performs exactly one flush, returns its
\* status (SUCCESS, FILE_ERROR or INSUFFICIENT_FILE_SPACE) and releases the
\* context in every case; when it returns SUCCESS the bytes that were pending
\* in the buffer are in the file.  Destroy on a null handle returns
\* INVALID_INPUT and changes nothing
C19_DestroyFlushesAndReleases ==
  [][ /\ (Live /\ Destroy /\ Returned) =>
           /\ handle' = "null"
           /\ status' \in {TEXTLOGGER_SUCCESS, TEXTLOGGER_ERR_FILE_ERROR,
                           TEXTLOGGER_ERR_INSUFFICIENT_FILE_SPACE}
           /\ \E env \in FileEnvs :
                LET r == TextLogger_FlushTextToFileStream(Here, env)
                IN  status' = r.status /\ fileBytes' = r.st.fileBytes
           /\ Len(hist'.writes) + Len(hist'.markers)
                <= Len(hist.writes) + Len(hist.markers) + 1
           /\ status' = TEXTLOGGER_SUCCESS =>
                /\ Len(fileBytes') = Len(fileBytes) + currBytePos
                /\ IsPrefix(fileBytes \o pTextBuffer, fileBytes')
      /\ (handle = "null" /\ Destroy) =>
           /\ status' = TEXTLOGGER_ERR_INVALID_INPUT
           /\ UNCHANGED <<handle, created, cfgVars, ledgerVars, fileBase,
                          fileBytes, openFiles, hist>> ]_vars

\* C19 witness: destroy has returned SUCCESS and released the context, and
\* the bytes of the buffer are in the file
C19_Witness ==
  /\ handle = "null" /\ created /\ status = TEXTLOGGER_SUCCESS
  /\ fileBytes # <<>> /\ hist.writes # <<>>
  /\ hist.writes[Len(hist.writes)].status = TEXTLOGGER_SUCCESS
  /\ IsSuffix(hist.writes[Len(hist.writes)].buffer, fileBytes)

\* C20: no file handle is left open when a public operation returns
C20_NoFileLeftOpen ==
  handle # "crashed" => openFiles = 0

\* C20 witness: a flush has returned after a short write, a flush has
\* returned from the overshoot branch, and no file is open
C20_Witness ==
  /\ Existed /\ openFiles = 0
  /\ hist.dropped > 0
  /\ \E i \in 1..Len(hist.writes) : hist.writes[i].status = TEXTLOGGER_ERR_FILE_ERROR

\* C21: ledger conservation: in every reachable state total_written is the
\* number of record bytes the context has appended to the file (end-marker
\* excluded) plus buffer_used
C21_LedgerConservation ==
  Existed => totalBytesStored = Len(RecordPart) + currBytePos

\* the accounted bytes have reached the file budget of the live context
BudgetExhausted == Live /\ maxFileSize <= totalBytesStored

\* the file bytes of the state s up to where the end-marker was written
RecordPartOf(s) ==
  IF s.hist.markers = <<>> THEN s.fileBytes
  ELSE SubSeq(s.fileBytes, 1, s.hist.markers[1].pos)

\* the outcomes of every flush and of every log_timestamp call that can be
\* made in this state
AnyFlushOutcomes ==
  { TextLogger_FlushTextToFileStream(Here, env) : env \in FileEnvs }

TimeStampOutcomes ==
  { TextLogger_LogTimeStamp(Here, tm, env) : tm \in Clocks, env \in FileEnvs }

\* the call with outcome r was refused for lack of file space: it returned
\* INSUFFICIENT_FILE_SPACE, or FILE_ERROR when it is the call that set
\* marker_emitted and its end-marker did not reach the file whole, and
\* buffer_used, the buffered bytes, total_written and the record bytes of the
\* file are as before the call
RefusedForSpace(r) ==
  /\ r.status \in {TEXTLOGGER_ERR_INSUFFICIENT_FILE_SPACE, TEXTLOGGER_ERR_FILE_ERROR}
  /\ r.status = TEXTLOGGER_ERR_FILE_ERROR =>
       /\ ~fileLimitIsReached /\ r.st.fileLimitIsReached
       /\ Len(r.st.fileBytes) < Len(fileBytes) + Len(pErrMsg)
  /\ r.st.currBytePos = currBytePos
  /\ r.st.pTextBuffer = pTextBuffer
  /\ r.st.totalBytesStored = totalBytesStored
  /\ RecordPartOf(r.st) = RecordPart

\* C22: budget exhaustion is absorbing: when total_written >= the effective
\* file budget, every flush, log_timestamp and admitted per-severity log call
\* returns INSUFFICIENT_FILE_SPACE (FILE_ERROR only for the one call whose
\* end-marker write fails) and leaves buffer_used, total_written and the
\* record bytes of the file unchanged, so the context stays exhausted
C22_ExhaustionIsAbsorbing ==
  BudgetExhausted =>
    /\ \A r \in AnyFlushOutcomes : RefusedForSpace(r)
    /\ \A r \in TimeStampOutcomes : RefusedForSpace(r)
    /\ \A level \in Severities : level <= logLevel =>
         \A o \in LogOutcomes(level) : RefusedForSpace(o.r)

\* C22 witness: the budget is exhausted with records still in the buffer, the
\* end-marker is in the file, and a flush called after the first refusal was
\* refused as well
C22_Witness ==
  /\ BudgetExhausted /\ currBytePos > 0
  /\ hist.markers # <<>> /\ fileLimitIsReached
  /\ hist.flushedSince
  /\ status = TEXTLOGGER_ERR_INSUFFICIENT_FILE_SPACE

\* the records the per-severity calls can append
AllRecords ==
  { RecordBytes(level, pLogText, tm) :
      level \in Severities, pLogText \in LogTexts, tm \in Clocks }

\* the number of whole records (timestamp, tag, payload, newline) in the bytes b
CountRecords(b) ==
  Cardinality({ i \in 1..Len(b) :
                  \E rec \in AllRecords :
                    /\ i + Len(rec) - 1 <= Len(b)
                    /\ SubSeq(b, i, i + Len(rec) - 1) = rec })

\* destroy has returned for a context whose file was empty at creation, and
\* no file operation has failed
DestroyedClean ==
  /\ created /\ handle = "null"
  /\ fileBase = 0
  /\ pFilePath # <<>> /\ hist.faults = 0

\* C23: no acknowledged record is lost: with an initially empty file and no
\* file-operation failure, once destroy has returned the file holds in full
\* every record whose per-severity call returned SUCCESS
C23_AcknowledgedRecordsInFile ==
  DestroyedClean => CountRecords(fileBytes) >= CountRecords(hist.accepted)

====
